---- MODULE Spec2Model ----
(***************************************************************************)
(* A model of frc1678/limeplotter/main.py: the plot-spec builders, main's  *)
(* start-up pipeline, the pause handler, the marker search of mark_xdata   *)
(* and the rising-edge scan of the -m marker columns.                      *)
(*                                                                         *)
(* Numbers: timestamps, y samples and thresholds are integers counted in   *)
(* half units, so that a target between two samples (2.5 -> 5) and a       *)
(* target outside the array (-0.5 -> -1) are integers too.                 *)
(* Strings that the code parses are sequences of one-character strings.    *)
(* Python indices are 0-based: element i of a list is t[i + 1] here.       *)
(***************************************************************************)
EXTENDS Integers, Sequences, FiniteSets, TLC

VARIABLES
    \* ---- mark_xdata / mark_time (lines 223-258)
    plot_pair_data,   \* the module global: pair name -> [t, x, y]
    tkind,            \* container type of the arrays: "list" or "Series"
    x,                \* mark_xdata's argument, the timestamp searched for
    pairs,            \* the pairs the for loop of line 230 has still to visit
    index,            \* the local of the same name
    distance,         \* the local of the same name
    mpc,              \* position in mark_xdata
    clamped,          \* line 250 has run for the current pair
    dir,              \* direction of the last jump of line 254/256: 1, -1, 0 for none
    marks,            \* the scatter calls of mark_time: <<pair, index>>
    \* ---- the marker-column scan of main (lines 500-520)
    column,           \* parts[0] of the marker spec
    rising_threshold, \* the local of the same name
    is_low,           \* the local of the same name
    scan_i,           \* the loop variable i of line 514
    mark_calls,       \* the calls mark_xdata(x[i]) made so far: <<i, x[i]>>
    scpc,             \* position in the scan
    \* ---- create_subplots_from_arguments (lines 289-308)
    arguments,        \* the parameter: the -p tokens
    argpos,           \* tokens consumed by the for loop of line 293
    subplots,         \* the local of the same name
    apc,              \* position in the builder
    \* ---- main and the callbacks (lines 105-221, 261-287, 310-558)
    pc,               \* position in main
    args,             \* the parsed command line
    plots,            \* main's local: the subplots built from -p or -y
    data_source,      \* the module global: None, "LogLoader", "NetworkTablesLoader"
    cursor,           \* the data source's read cursor (rows readable in animate mode)
    ds_calls,         \* the data source's gather / gather_next_datasets calls, in order
    rpos,             \* entries the loop of lines 370-402 has handled
    plot_info,        \* the module global of the same name (None before main fills it: <<>>)
    animate_plots,    \* the module global of the same name
    line_data,        \* rows shown by each animated line (set_data)
    plots_touched,    \* the last return value of update_animate
    paused,           \* the module global of the same name
    timer,            \* anim.event_source: None, "running", "stopped"
    exit_code,        \* None while running, then the process's exit status "0" or "1"
    error,            \* the diagnostic or exception that ended main, NoError for none
    listed            \* what the -l listing printed

searchVars == <<plot_pair_data, tkind, x, pairs, index, distance, mpc, clamped, dir, marks>>

scanVars == <<column, rising_threshold, is_low, scan_i, mark_calls, scpc>>

argVars == <<arguments, argpos, subplots, apc>>

mainVars ==
    <<pc, args, plots, data_source, cursor, ds_calls, rpos, plot_info, animate_plots,
      line_data, plots_touched, paused, timer, exit_code, error, listed>>

vars == <<searchVars, scanVars, argVars, mainVars>>

\* ------------------------------------------------------------------ bounds
MaxLen == 4        \* longest time array / y series
MaxTime == 3       \* samples are 2*k for k in 0..MaxTime
MaxY == 2          \* y samples and thresholds are 0..MaxY
MaxArgs == 4       \* most -p tokens

None == "None"

\* None where the other values are tuples, records or sequences
NotFound == <<>>

NoError == [type |-> "None"]

NoYaml == [given |-> FALSE, plots |-> <<>>]

Yaml(p) == [given |-> TRUE, plots |-> p]

TimeVals == {2 * k : k \in 0..MaxTime}
Targets == -1..(2 * MaxTime + 1)
SeqsUpTo(S, n) == UNION {[1..k -> S] : k \in 0..n}

\* ------------------------------------------------------------ Python reads
\* len(plot_pair_data[pair]['t'])
PyLen(a) == Len(a)

\* Whether a[i] can be read.  A list accepts -len..len-1 (a negative index
\* counts from the end); a pandas Series with the default index accepts
\* 0..len-1 only.  Anything else raises (IndexError / KeyError).
Readable(a, i, kind) ==
    \/ i >= 0 /\ i < Len(a)
    \/ kind = "list" /\ i < 0 /\ i >= -Len(a)

\* a[i] for a readable i
At(a, i) == IF i >= 0 THEN a[i + 1] ELSE a[Len(a) + i + 1]

\* int(n / 2) for n >= 0
Half(n) == n \div 2

\* ------------------------------------------------- mark_xdata, one pair
\* Lines 231-235: the search starts in the middle of the array.
SearchStart(t) ==
    [index |-> Half(PyLen(t)), distance |-> Half(PyLen(t)),
     at |-> "check", clamped |-> FALSE, dir |-> 0]

\* Line 237: t[index] <= x and x < t[index+1].  Python evaluates the left
\* operand first and reads t[index+1] only when it is true.
BracketTest(t, i, xx, kind) ==
    IF ~Readable(t, i, kind) THEN "raised"
    ELSE IF ~(At(t, i) <= xx) THEN "miss"
    ELSE IF ~Readable(t, i + 1, kind) THEN "raised"
    ELSE IF xx < At(t, i + 1) THEN "found"
    ELSE "miss"

\* Lines 249-251: a jump distance of 0 becomes 1.
ClampDistance(d) == IF d = 0 THEN 1 ELSE d

\* Lines 253-256: right when the bracket's right edge is at or below the
\* target, left otherwise.
JumpTo(t, i, d, xx) == IF At(t, i + 1) <= xx THEN i + d ELSE i - d

\* One step of the while loop of lines 236-258 on the search state s.
SearchStep(t, xx, kind, s) ==
    IF s.at = "check"
    THEN LET r == BracketTest(t, s.index, xx, kind)
         IN  [s EXCEPT !.at = IF r = "miss" THEN "jump" ELSE r]
    ELSE IF s.at = "jump"
    THEN LET d == ClampDistance(Half(s.distance))
         IN  IF ~Readable(t, s.index + 1, kind)
             THEN [s EXCEPT !.distance = d,
                            !.clamped = s.clamped \/ Half(s.distance) = 0,
                            !.at = "raised"]
             ELSE [s EXCEPT !.distance = d,
                            !.clamped = s.clamped \/ Half(s.distance) = 0,
                            !.index = JumpTo(t, s.index, d, xx),
                            !.dir = IF JumpTo(t, s.index, d, xx) > s.index THEN 1 ELSE -1,
                            !.at = "check"]
    ELSE s

\* ------------------------------------------------ mark_xdata as actions
\* Line 230: the for loop takes the next pair, or mark_xdata returns.
MarkXdataFor ==
    /\ mpc = "for"
    /\ IF pairs = <<>>
       THEN /\ mpc' = "done"
            /\ UNCHANGED <<index, distance, clamped, dir, pairs>>
       ELSE LET s == SearchStart(plot_pair_data[Head(pairs)].t)
            IN  /\ index' = s.index
                /\ distance' = s.distance
                /\ clamped' = FALSE
                /\ dir' = 0
                /\ mpc' = "check"
                /\ UNCHANGED pairs
    /\ UNCHANGED <<plot_pair_data, tkind, x, marks, scanVars, argVars, mainVars>>

CurrentT == plot_pair_data[Head(pairs)].t

CurrentS ==
    [index |-> index, distance |-> distance, at |-> mpc, clamped |-> clamped, dir |-> dir]

\* Lines 237-244: the bracket test; on success mark_time and break.
SearchCheck ==
    /\ mpc = "check"
    /\ LET s == SearchStep(CurrentT, x, tkind, CurrentS)
       IN  IF s.at = "found"
           THEN /\ marks' = marks \cup {<<Head(pairs), index>>}
                /\ pairs' = Tail(pairs)
                /\ mpc' = "for"
           ELSE /\ mpc' = s.at
                /\ UNCHANGED <<marks, pairs>>
    /\ UNCHANGED <<plot_pair_data, tkind, x, index, distance, clamped, dir,
                   scanVars, argVars, mainVars>>

\* Lines 246-258: halve the distance, clamp it, jump.
SearchJump ==
    /\ mpc = "jump"
    /\ LET s == SearchStep(CurrentT, x, tkind, CurrentS)
       IN  /\ index' = s.index
           /\ distance' = s.distance
           /\ clamped' = s.clamped
           /\ dir' = s.dir
           /\ mpc' = s.at
    /\ UNCHANGED <<plot_pair_data, tkind, x, pairs, marks, scanVars, argVars, mainVars>>

\* mark_xdata called with timestamp xx on a populated plot_pair_data.
PairOf(t) == [t |-> t, x |-> t, y |-> t]

SearchIdle ==
    /\ plot_pair_data = <<>>
    /\ tkind = "list"
    /\ x = 0
    /\ pairs = <<>>
    /\ index = 0
    /\ distance = 0
    /\ mpc = "idle"
    /\ clamped = FALSE
    /\ dir = 0
    /\ marks = {}

ScanIdle ==
    /\ column = None
    /\ rising_threshold = 0
    /\ is_low = FALSE
    /\ scan_i = 0
    /\ mark_calls = <<>>
    /\ scpc = "idle"

ArgsIdle ==
    /\ arguments = <<>>
    /\ argpos = 0
    /\ subplots = <<>>
    /\ apc = "idle"

\* The module globals as lines 94-103 and 210 set them; main has not run.
MainIdle ==
    /\ pc = "idle"
    /\ args = None
    /\ plots = <<>>
    /\ data_source = None
    /\ cursor = 0
    /\ ds_calls = <<>>
    /\ rpos = 0
    /\ plot_info = <<>>
    /\ animate_plots = <<>>
    /\ line_data = <<>>
    /\ plots_touched = <<>>
    /\ paused = FALSE
    /\ timer = None
    /\ exit_code = None
    /\ error = NoError
    /\ listed = <<>>

InitSearch ==
    /\ ScanIdle
    /\ ArgsIdle
    /\ MainIdle
    /\ \E t \in SeqsUpTo(TimeVals, MaxLen) : plot_pair_data = [p \in {"p"} |-> PairOf(t)]
    /\ tkind \in {"list", "Series"}
    /\ x \in Targets
    /\ pairs = <<"p">>
    /\ index = 0
    /\ distance = 0
    /\ mpc = "for"
    /\ clamped = FALSE
    /\ dir = 0
    /\ marks = {}

NextSearch ==
    \/ MarkXdataFor
    \/ SearchCheck
    \/ SearchJump

SpecSearch == InitSearch /\ [][NextSearch]_vars

SpecSearchFair == SpecSearch /\ WF_vars(NextSearch)

\* ------------------------------------------- the marker-column scan
\* Timestamps of a series of n samples taken at a steady rate.
Stamps(n) == [k \in 1..n |-> 2 * (k - 1)]

\* Line 513: the scan of one marker column starts armed.  (Lines 502-511
\* have split the marker spec into column, rising_threshold and marker.)
ScanStart ==
    /\ scpc = "start"
    /\ is_low' = TRUE
    /\ scan_i' = 0
    /\ scpc' = "scan"
    /\ UNCHANGED <<column, rising_threshold, mark_calls, searchVars, argVars, mainVars>>

\* Lines 515-519 for one sample: whether mark_xdata is called for it, and
\* the armed flag after it.
TriggersAtThreshold(low, yi, thr) == low /\ yi >= thr

Triggers(low, yi, thr) == low /\ yi > thr

Rearms(low, yi, thr) == ~Triggers(low, yi, thr) /\ yi < thr

NextIsLow(low, yi, thr) ==
    IF Triggers(low, yi, thr) THEN FALSE
    ELSE IF Rearms(low, yi, thr) THEN TRUE
    ELSE low

\* The pairs of plot_pair_data in the order the for loop of line 230 takes.
PairOrder(ppd) ==
    CHOOSE s \in [1..Cardinality(DOMAIN ppd) -> DOMAIN ppd] :
        \A j, k \in 1..Cardinality(DOMAIN ppd) : j # k => s[j] # s[k]

\* Lines 514-519: one iteration of the for loop up to the call of line 516,
\* or to its end when the sample does not trigger; or the end of the loop.
\* The call mark_xdata(x[i]) is the emission of index i; the for loop of
\* mark_xdata then runs as MarkXdataFor / SearchCheck / SearchJump.
ScanStep ==
    /\ scpc = "scan"
    /\ LET ys == plot_pair_data[column].y
           xs == plot_pair_data[column].x
       IN  IF scan_i >= PyLen(ys)
           THEN /\ scpc' = "done"
                /\ UNCHANGED <<is_low, scan_i, mark_calls, x, pairs, mpc>>
           ELSE IF Triggers(is_low, At(ys, scan_i), rising_threshold)
           THEN /\ mark_calls' = Append(mark_calls, <<scan_i, At(xs, scan_i)>>)
                /\ x' = At(xs, scan_i)
                /\ pairs' = PairOrder(plot_pair_data)
                /\ mpc' = "for"
                /\ scpc' = "marking"
                /\ UNCHANGED <<is_low, scan_i>>
           ELSE /\ is_low' = NextIsLow(is_low, At(ys, scan_i), rising_threshold)
                /\ scan_i' = scan_i + 1
                /\ UNCHANGED <<scpc, mark_calls, x, pairs, mpc>>
    /\ UNCHANGED <<column, rising_threshold, plot_pair_data, tkind, index, distance,
                   clamped, dir, marks, argVars, mainVars>>

\* Line 517, after mark_xdata has returned: the scan is disarmed and goes on
\* to the next sample.
ScanMarked ==
    /\ scpc = "marking"
    /\ mpc = "done"
    /\ is_low' = FALSE
    /\ scan_i' = scan_i + 1
    /\ scpc' = "scan"
    /\ UNCHANGED <<column, rising_threshold, mark_calls, searchVars, argVars, mainVars>>

InitScan ==
    /\ \E ys \in SeqsUpTo(0..MaxY, MaxLen) :
          plot_pair_data = [c \in {"c"} |-> [t |-> Stamps(Len(ys)), x |-> Stamps(Len(ys)), y |-> ys]]
    /\ tkind = "list"
    /\ x = 0
    /\ pairs = <<>>
    /\ index = 0
    /\ distance = 0
    /\ mpc = "idle"
    /\ clamped = FALSE
    /\ dir = 0
    /\ marks = {}
    /\ column = "c"
    /\ rising_threshold \in 0..MaxY
    /\ is_low = FALSE
    /\ scan_i = 0
    /\ mark_calls = <<>>
    /\ scpc = "start"
    /\ ArgsIdle
    /\ MainIdle

NextScan ==
    \/ ScanStart
    \/ ScanStep
    \/ MarkXdataFor
    \/ SearchCheck
    \/ SearchJump
    \/ ScanMarked

SpecScan == InitScan /\ [][NextScan]_vars

\* ------------------------------------- create_subplots_from_arguments
\* A -p token is a string: a sequence of characters.
Slash == <<"/">>

A == <<"a">>

B == <<"b">>

C == <<"c">>

D == <<"d">>

\* The tokens tried: the separator, tokens with no comma, with one comma,
\* with several, with a comma first or last, the empty string, and a token
\* that holds a slash without being the separator.
Tokens ==
    {Slash, <<"a", ",", "b">>, C, D, <<>>, <<",">>, <<"a", ",">>, <<",", "b">>,
     <<"a", ",", "b", ",", "c">>, <<"a", "/">>}

Timestamp == <<"t", "i", "m", "e", "s", "t", "a", "m", "p">>

\* pair.find(","): the 0-based position of the first comma, -1 for none
Find(str, ch) ==
    IF \E k \in 1..Len(str) : str[k] = ch
    THEN (CHOOSE k \in 1..Len(str) : str[k] = ch /\ \A j \in 1..(k - 1) : str[j] # ch) - 1
    ELSE -1

\* str[:n] and str[n:] for 0 <= n <= len(str)
Before(str, n) == SubSeq(str, 1, n)

After(str, n) == SubSeq(str, n + 1, Len(str))

\* pair.rfind(","): the 0-based position of the last comma, -1 for none
FindLast(str, ch) ==
    IF \E k \in 1..Len(str) : str[k] = ch
    THEN (CHOOSE k \in 1..Len(str) : str[k] = ch /\ \A j \in (k + 1)..Len(str) : str[j] # ch) - 1
    ELSE -1

EntryOfPairLastComma(pair) ==
    LET comma_spot == FindLast(pair, ",")
    IN  IF comma_spot # -1
        THEN [x |-> Before(pair, comma_spot), y |-> After(pair, comma_spot + 1)]
        ELSE [x |-> Timestamp, y |-> pair]

\* Lines 299-307: the entry a non-separator token adds.
EntryOfPair(pair) ==
    LET comma_spot == Find(pair, ",")
    IN  IF comma_spot # -1
        THEN [x |-> Before(pair, comma_spot), y |-> After(pair, comma_spot + 1)]
        ELSE [x |-> Timestamp, y |-> pair]

\* Lines 294-307 for one token: a separator opens a new subplot, any other
\* token adds its entry to subplot, which is the last element of subplots.
AddToken(sp, pair) ==
    IF pair = Slash
    THEN Append(sp, <<>>)
    ELSE [sp EXCEPT ![Len(sp)] = Append(@, EntryOfPair(pair))]

\* The whole function: lines 291-308 on the tokens toks.
RECURSIVE FoldTokens(_, _)
FoldTokens(sp, toks) ==
    IF toks = <<>> THEN sp ELSE FoldTokens(AddToken(sp, Head(toks)), Tail(toks))

create_subplots_from_arguments(toks) == FoldTokens(<< <<>> >>, toks)

\* Lines 291-292: one empty subplot to begin with.
ArgsStart ==
    /\ apc = "start"
    /\ subplots' = << <<>> >>
    /\ argpos' = 0
    /\ apc' = "loop"
    /\ UNCHANGED <<arguments, searchVars, scanVars, mainVars>>

\* Lines 293-308: one token, or the return.
ArgsStep ==
    /\ apc = "loop"
    /\ IF argpos >= Len(arguments)
       THEN /\ apc' = "returned"
            /\ UNCHANGED <<subplots, argpos>>
       ELSE LET pair == arguments[argpos + 1]
            IN  /\ subplots' = AddToken(subplots, pair)
                /\ argpos' = argpos + 1
                /\ UNCHANGED apc
    /\ UNCHANGED <<arguments, searchVars, scanVars, mainVars>>

InitArgs ==
    /\ SearchIdle
    /\ ScanIdle
    /\ MainIdle
    /\ arguments \in SeqsUpTo(Tokens, MaxArgs)
    /\ argpos = 0
    /\ subplots = <<>>
    /\ apc = "start"

NextArgs ==
    \/ ArgsStart
    \/ ArgsStep

SpecArgs == InitArgs /\ [][NextArgs]_vars

\* ------------------------------------------------------ the data source
\* LogLoader and NetworkTablesLoader are imported (lines 88-89); main uses
\* them through find_column_identifier, find_column_timestamp_identifier,
\* gather, gather_next_datasets, clear_data and dataframes.  Two tables are
\* loaded, of different length and sampling rate.
LoadedTables ==
    << [name |-> "f1", columns |-> <<Timestamp, A, B>>, stamps |-> <<0, 2, 4>>],
       [name |-> "f2", columns |-> <<Timestamp, C>>, stamps |-> <<0, 1, 2, 3, 4>>] >>

HasColumn(tb, name) == \E k \in 1..Len(tb.columns) : tb.columns[k] = name

\* The first table, in load order, that holds the column; 0 for none.
TableOf(name) ==
    IF \E n \in 1..Len(LoadedTables) : HasColumn(LoadedTables[n], name)
    THEN CHOOSE n \in 1..Len(LoadedTables) :
            /\ HasColumn(LoadedTables[n], name)
            /\ \A m \in 1..(n - 1) : ~HasColumn(LoadedTables[m], name)
    ELSE 0

find_column_identifier(name) ==
    IF TableOf(name) = 0 THEN NotFound ELSE <<TableOf(name), name>>

\* The timestamp column of the table that holds y.
find_column_timestamp_identifier(y) ==
    IF TableOf(y) = 0 \/ ~HasColumn(LoadedTables[TableOf(y)], Timestamp)
    THEN NotFound
    ELSE <<TableOf(y), Timestamp>>

Min(a, b) == IF a < b THEN a ELSE b

\* The rows of a table a gather returns: all of them, or in animate mode
\* those the cursor has reached.
RowsRead(n, animate, cur) ==
    IF animate THEN Min(cur, Len(LoadedTables[n].stamps)) ELSE Len(LoadedTables[n].stamps)

\* gather(xident, yident, animate): the x and y series.  A timestamp column
\* holds the table's time stamps; the value of any other sample is not
\* modelled, only how many there are.
ColumnData(ident, animate, cur) ==
    IF ident[2] = Timestamp
    THEN SubSeq(LoadedTables[ident[1]].stamps, 1, RowsRead(ident[1], animate, cur))
    ELSE [k \in 1..RowsRead(ident[1], animate, cur) |-> 0]

gather(xident, yident, animate, cur) ==
    [x |-> ColumnData(xident, animate, cur), y |-> ColumnData(yident, animate, cur)]

\* dataframes: source name -> columns, as the -l listing prints it.
Listing == [n \in 1..Len(LoadedTables) |-> <<LoadedTables[n].name, LoadedTables[n].columns>>]

\* ------------------------------------------- create_subplots_from_yaml
\* The loaded yaml document's 'plots' mapping: its keys in order, each with
\* its list of entries; an entry is a mapping from option names to values.
\* Lines 275-286 for one entry; a missing 'y' raises KeyError at line 279.
\* Without -y, yaml_file is None and yaml.load raises at line 268 (None has
\* no read method).
EntryOfYaml(entry) ==
    [x |-> IF "x" \in DOMAIN entry THEN entry.x ELSE Timestamp,
     y |-> entry.y,
     table |-> IF "table" \in DOMAIN entry THEN entry.table ELSE None,
     options |-> entry]

YamlRaises(doc) ==
    \/ ~doc.given
    \/ \E k \in 1..Len(doc.plots) : \E j \in 1..Len(doc.plots[k]) :
          "y" \notin DOMAIN doc.plots[k][j]

\* Lines 270-287 when nothing raises.
create_subplots_from_yaml(doc) ==
    [k \in 1..Len(doc.plots) |->
        [j \in 1..Len(doc.plots[k]) |-> EntryOfYaml(doc.plots[k][j])]]

\* ------------------------------------------------------------ parse_args
\* The command lines tried.  -p token lists:
PlotPairChoices ==
    { <<>>,
      << <<"a", ",", "b">> >>,
      << C >>,
      << <<"a", ",", "b">>, Slash, C >>,
      << D >>,
      << <<"d", ",", "a">> >>,
      << <<"a", ",", "d">> >> }

\* -y documents: NoYaml when -y is not given (args.yaml_plot is None).
YamlChoices ==
    { NoYaml,
      Yaml(<< <<[x |-> A, y |-> B, title |-> "xy"]>>, <<[y |-> C]>> >>),
      Yaml(<< <<[y |-> C]>>, <<[y |-> A], [y |-> B]>> >>),
      Yaml(<< <<[x |-> A]>> >>),
      Yaml(<< <<[y |-> D]>> >>),
      Yaml(<< <<[x |-> D, y |-> A]>> >>),
      Yaml(<< <<[y |-> C]>>, <<[x |-> A, y |-> D]>> >>),
      Yaml(<< <<[x |-> D, y |-> D]>> >>) }

\* -m marker specs, already split at the commas (line 502): column,
\* threshold, marker.
MarkerChoices == { <<>>, << <<C>> >>, << <<C, 1, "o">> >> }

ArgsChoices ==
    [plot_pairs : PlotPairChoices, yaml_plot : YamlChoices, list_variables : BOOLEAN,
     animate : BOOLEAN, animation_frames : {2}, log_files : BOOLEAN,
     network_server : BOOLEAN, marker_columns : MarkerChoices, output_file : BOOLEAN]

Init ==
    /\ SearchIdle
    /\ ScanIdle
    /\ ArgsIdle
    /\ pc = "parse_args"
    /\ args \in ArgsChoices
    /\ plots = <<>>
    /\ data_source = None
    /\ cursor = 0
    /\ ds_calls = <<>>
    /\ rpos = 0
    /\ plot_info = <<>>
    /\ animate_plots = <<>>
    /\ line_data = <<>>
    /\ plots_touched = <<>>
    /\ paused = FALSE
    /\ timer = None
    /\ exit_code = None
    /\ error = NoError
    /\ listed = <<>>

\* An uncaught exception: the interpreter prints the traceback and the
\* process exits with status 1.
Raise(e) ==
    /\ pc' = "raised"
    /\ error' = e
    /\ exit_code' = "1"

\* Lines 148-160: one of -p, -y, -l is required.
ParseArgs ==
    /\ pc = "parse_args"
    /\ IF args.plot_pairs = <<>> /\ ~args.list_variables /\ ~args.yaml_plot.given
       THEN /\ pc' = "exited"
            /\ exit_code' = "1"
            /\ error' = [type |-> "diagnostic",
                         text |-> "-y with a yaml file or -p with plot-pairs is required"]
       ELSE /\ pc' = "build_plots"
            /\ UNCHANGED <<exit_code, error>>
    /\ UNCHANGED <<args, plots, data_source, cursor, ds_calls, rpos, plot_info,
                   animate_plots, line_data, plots_touched, paused, timer, listed,
                   searchVars, scanVars, argVars>>

\* Lines 319-322: the subplots come from -p when it has tokens, from the
\* yaml document otherwise.
BuildPlots ==
    /\ pc = "build_plots"
    /\ IF args.plot_pairs # <<>>
       THEN /\ plots' = create_subplots_from_arguments(args.plot_pairs)
            /\ pc' = "open_source"
            /\ UNCHANGED <<exit_code, error>>
       ELSE IF YamlRaises(args.yaml_plot)
       THEN /\ Raise(IF ~args.yaml_plot.given
                      THEN [type |-> "AttributeError", key |-> "read"]
                      ELSE [type |-> "KeyError", key |-> "y"])
            /\ UNCHANGED plots
       ELSE /\ plots' = create_subplots_from_yaml(args.yaml_plot)
            /\ pc' = "open_source"
            /\ UNCHANGED <<exit_code, error>>
    /\ UNCHANGED <<args, data_source, cursor, ds_calls, rpos, plot_info,
                   animate_plots, line_data, plots_touched, paused, timer, listed,
                   searchVars, scanVars, argVars>>

\* Lines 327-337: a log source, else a network source, else exit(1).
OpenSource ==
    /\ pc = "open_source"
    /\ IF args.log_files
       THEN /\ data_source' = "LogLoader"
            /\ pc' = "list_variables"
            /\ UNCHANGED <<exit_code, error>>
       ELSE IF args.network_server
       THEN /\ data_source' = "NetworkTablesLoader"
            /\ pc' = "list_variables"
            /\ UNCHANGED <<exit_code, error>>
       ELSE /\ pc' = "exited"
            /\ exit_code' = "1"
            /\ error' = [type |-> "diagnostic",
                         text |-> "either a log file list (-L) or a network server (-N) is needed"]
            /\ UNCHANGED data_source
    /\ UNCHANGED <<args, plots, cursor, ds_calls, rpos, plot_info,
                   animate_plots, line_data, plots_touched, paused, timer, listed,
                   searchVars, scanVars, argVars>>

\* Lines 341-367: with -l print every source and its columns and exit();
\* otherwise create the axes and start with an empty plot_info.
ListVariables ==
    /\ pc = "list_variables"
    /\ IF args.list_variables
       THEN /\ listed' = Listing
            /\ pc' = "exited"
            /\ exit_code' = "0"
            /\ UNCHANGED plot_info
       ELSE /\ plot_info' = <<>>
            /\ pc' = "resolve"
            /\ UNCHANGED <<listed, exit_code>>
    /\ UNCHANGED <<args, plots, data_source, cursor, ds_calls, rpos,
                   animate_plots, line_data, plots_touched, paused, timer, error,
                   searchVars, scanVars, argVars>>

\* The entries in the order the loops of lines 370-371 visit them, each with
\* its axis_index.
RECURSIVE FlatFrom(_, _)
FlatFrom(sp, k) ==
    IF k > Len(sp) THEN <<>>
    ELSE [j \in 1..Len(sp[k]) |-> [axis_index |-> k - 1, entry |-> sp[k][j]]]
         \o FlatFrom(sp, k + 1)

FlatEntries(sp) == FlatFrom(sp, 1)

\* Lines 381-385: the two lookups for an entry.
YIdent(entry) == find_column_identifier(entry.y)

XIdent(entry) ==
    IF entry.x = Timestamp
    THEN find_column_timestamp_identifier(entry.y)
    ELSE find_column_identifier(entry.x)

ResolveErrorYFirst(entry) ==
    IF YIdent(entry) = NotFound
    THEN [type |-> "ValueError", role |-> "y", y |-> entry.y]
    ELSE IF XIdent(entry) = NotFound
    THEN [type |-> "ValueError", role |-> "x", x |-> entry.x, y |-> entry.y]
    ELSE NoError

\* Lines 388-391: the exception for an entry whose lookups failed, NoError
\* when both succeeded.  The x result is tested first.
ResolveError(entry) ==
    IF XIdent(entry) = NotFound
    THEN [type |-> "ValueError", role |-> "x", x |-> entry.x, y |-> entry.y]
    ELSE IF YIdent(entry) = NotFound
    THEN [type |-> "ValueError", role |-> "y", y |-> entry.y]
    ELSE NoError

\* Lines 398-401 read entry['options'].
OptionsMissing(entry) == "options" \notin DOMAIN entry

\* Lines 371-402 for one entry, or the end of the loops.
ResolveEntry ==
    /\ pc = "resolve"
    /\ IF rpos >= Len(FlatEntries(plots))
       THEN /\ pc' = "gather"
            /\ UNCHANGED <<rpos, plot_info, exit_code, error>>
       ELSE LET fe == FlatEntries(plots)[rpos + 1]
                entry == fe.entry
            IN  IF ResolveError(entry) # NoError
                THEN /\ Raise(ResolveError(entry))
                     /\ UNCHANGED <<rpos, plot_info>>
                ELSE IF OptionsMissing(entry)
                THEN /\ Raise([type |-> "KeyError", key |-> "options"])
                     /\ UNCHANGED <<rpos, plot_info>>
                ELSE /\ plot_info' = Append(plot_info,
                                        entry @@ [xident |-> XIdent(entry),
                                                  yident |-> YIdent(entry),
                                                  axis |-> fe.axis_index,
                                                  data_source |-> data_source])
                     /\ rpos' = rpos + 1
                     /\ UNCHANGED <<pc, exit_code, error>>
    /\ UNCHANGED <<args, plots, data_source, cursor, ds_calls,
                   animate_plots, line_data, plots_touched, paused, timer, listed,
                   searchVars, scanVars, argVars>>

\* gather_new_data, lines 166-171: one gather per entry of plot_info.
Gathered(info, animate, cur) ==
    [k \in 1..Len(info) |->
        [data |-> gather(info[k].xident, info[k].yident, animate, cur)] @@ info[k]]

GatherCalls(info) == [k \in 1..Len(info) |-> "gather"]

\* Line 406: main's gather.
GatherNewData ==
    /\ pc = "gather"
    /\ plot_info' = Gathered(plot_info, args.animate, cursor)
    /\ ds_calls' = ds_calls \o GatherCalls(plot_info)
    /\ pc' = "plot"
    /\ UNCHANGED <<args, plots, data_source, cursor, rpos,
                   animate_plots, line_data, plots_touched, paused, timer,
                   exit_code, error, listed, searchVars, scanVars, argVars>>

\* Lines 412-474: every entry is plotted; in animate mode as an empty line
\* that is kept in animate_plots and in the entry.  Nothing is stored in
\* plot_pair_data: lines 478-487 are commented out.
PlotEntries ==
    /\ pc = "plot"
    /\ IF args.animate
       THEN /\ plot_info' = [k \in 1..Len(plot_info) |-> [plot |-> k] @@ plot_info[k]]
            /\ animate_plots' = [k \in 1..Len(plot_info) |-> k]
            /\ line_data' = [k \in 1..Len(plot_info) |-> 0]
       ELSE UNCHANGED <<plot_info, animate_plots, line_data>>
    /\ pc' = "markers"
    /\ UNCHANGED <<args, plots, data_source, cursor, ds_calls, rpos,
                   plots_touched, paused, timer, exit_code, error, listed,
                   searchVars, scanVars, argVars>>

\* Line 504: the default threshold .5, in half units.
DefaultThreshold == 1

\* Lines 500-514 for the first marker spec: its column is looked up in
\* plot_pair_data at line 514, which raises KeyError for a missing key.
Markers ==
    /\ pc = "markers"
    /\ IF args.marker_columns = <<>>
       THEN /\ pc' = "show"
            /\ UNCHANGED <<scanVars, exit_code, error>>
       ELSE LET parts == args.marker_columns[1]
            IN  /\ column' = parts[1]
                /\ rising_threshold' = IF Len(parts) > 1 THEN parts[2] ELSE DefaultThreshold
                /\ is_low' = TRUE
                /\ UNCHANGED <<scan_i, mark_calls>>
                /\ IF parts[1] \notin DOMAIN plot_pair_data
                   THEN /\ Raise([type |-> "KeyError", key |-> "plot_pair_data", column |-> parts[1]])
                        /\ UNCHANGED scpc
                   ELSE /\ scpc' = "scan"
                        /\ pc' = "scanning"
                        /\ UNCHANGED <<exit_code, error>>
    /\ UNCHANGED <<args, plots, data_source, cursor, ds_calls, rpos, plot_info,
                   animate_plots, line_data, plots_touched, paused, timer, listed,
                   searchVars, argVars>>

\* Lines 522-558: save to the output file and return, or show the window;
\* in animate mode FuncAnimation starts its timer and the buttons are made,
\* otherwise clicks are connected to display_time_info.
Show ==
    /\ pc = "show"
    /\ IF args.output_file
       THEN /\ pc' = "exited"
            /\ exit_code' = "0"
            /\ UNCHANGED timer
       ELSE /\ pc' = "showing"
            /\ timer' = IF args.animate THEN "running" ELSE timer
            /\ UNCHANGED exit_code
    /\ UNCHANGED <<args, plots, data_source, cursor, ds_calls, rpos, plot_info,
                   animate_plots, line_data, plots_touched, paused, error, listed,
                   searchVars, scanVars, argVars>>

\* The window is shown and no callback is running.
Showing == pc = "showing" /\ mpc \in {"idle", "done"}

\* The timestamps a click can give.
ClickTimes == {1, 3}

\* display_time_info, lines 261-265: a click at event.xdata = t calls
\* mark_xdata(t); its for loop is MarkXdataFor.
DisplayTimeInfo(t) ==
    /\ Showing
    /\ ~args.animate
    /\ x' = t
    /\ pairs' = PairOrder(plot_pair_data)
    /\ mpc' = "for"
    /\ UNCHANGED <<plot_pair_data, tkind, index, distance, clamped, dir, marks,
                   scanVars, argVars, mainVars>>

\* init_animate, lines 173-181.
InitAnimate ==
    /\ Showing
    /\ args.animate
    /\ line_data' = [k \in 1..Len(animate_plots) |-> 0]
    /\ UNCHANGED <<pc, args, plots, data_source, cursor, ds_calls, rpos, plot_info,
                   animate_plots, plots_touched, paused, timer, exit_code, error, listed,
                   searchVars, scanVars, argVars>>

\* gather_next_datasets: the cursor moves on by animation_frames rows, up
\* to the rows of the longest table.
MaxRows == Len(LoadedTables[2].stamps)

\* clear_data: the source starts over.
clear_data(cur) == 0

gather_next_datasets(cur, step) == Min(cur + step, MaxRows)

FramesDone == Cardinality({k \in 1..Len(ds_calls) : ds_calls[k] = "gather_next_datasets"})

MaxFrames == 2

FrameCallsGatherFirst(info) == GatherCalls(info) \o <<"gather_next_datasets">>

\* Lines 185-186: update_animate advances the source, then gathers.
FrameCalls(info) == <<"gather_next_datasets">> \o GatherCalls(info)

\* update_animate, lines 183-202: a frame of the animation timer.
UpdateAnimate ==
    /\ Showing
    /\ args.animate
    /\ timer = "running"
    /\ FramesDone < MaxFrames
    /\ LET cur == gather_next_datasets(cursor, args.animation_frames)
           info == Gathered(plot_info, TRUE, cur)
       IN  /\ cursor' = cur
           /\ ds_calls' = ds_calls \o FrameCalls(plot_info)
           /\ plot_info' = info
           /\ line_data' = [k \in 1..Len(line_data) |->
                               IF \E n \in 1..Len(info) : info[n].plot = k
                               THEN Len((CHOOSE e \in {info[n] : n \in 1..Len(info)} :
                                            e.plot = k).data.x)
                               ELSE line_data[k]]
           /\ plots_touched' = [n \in 1..Len(info) |-> info[n].plot]
    /\ UNCHANGED <<pc, args, plots, data_source, rpos, animate_plots, paused, timer,
                   exit_code, error, listed, searchVars, scanVars, argVars>>

\* pause, lines 211-221.
\* Lines 214-219: stop() when paused is set, start() when it is not.
PauseTimer(p) == IF p THEN "stopped" ELSE "running"

Pause ==
    /\ Showing
    /\ args.animate
    /\ timer' = PauseTimer(paused)
    /\ paused' = ~paused
    /\ UNCHANGED <<pc, args, plots, data_source, cursor, ds_calls, rpos, plot_info,
                   animate_plots, line_data, plots_touched, exit_code, error, listed,
                   searchVars, scanVars, argVars>>

\* clear_data, lines 207-208.
ClearData ==
    /\ Showing
    /\ args.animate
    /\ cursor' = clear_data(cursor)
    /\ UNCHANGED <<pc, args, plots, data_source, ds_calls, rpos, plot_info,
                   animate_plots, line_data, plots_touched, paused, timer,
                   exit_code, error, listed, searchVars, scanVars, argVars>>

\* The window is closed: plt.show() returns at line 558 and main ends.
CloseWindow ==
    /\ Showing
    /\ pc' = "exited"
    /\ exit_code' = "0"
    /\ UNCHANGED <<args, plots, data_source, cursor, ds_calls, rpos, plot_info,
                   animate_plots, line_data, plots_touched, paused, timer, error, listed,
                   searchVars, scanVars, argVars>>

Next ==
    \/ ParseArgs
    \/ BuildPlots
    \/ OpenSource
    \/ ListVariables
    \/ ResolveEntry
    \/ GatherNewData
    \/ PlotEntries
    \/ Markers
    \/ Show
    \/ \E t \in ClickTimes : DisplayTimeInfo(t)
    \/ MarkXdataFor
    \/ InitAnimate
    \/ UpdateAnimate
    \/ Pause
    \/ ClearData
    \/ CloseWindow

Spec == Init /\ [][Next]_vars

\* ------------------------------------------------------ claims C1, C2, C10
TheT == plot_pair_data["p"].t

LastIndex(t) == PyLen(t) - 1

StrictlyIncreasing(t) == \A i \in 1..(Len(t) - 1) : t[i] < t[i + 1]

\* index i brackets the target: t[i] <= xx < t[i+1], both inside the array
Brackets(t, i, xx) ==
    /\ i >= 0
    /\ i + 1 <= LastIndex(t)
    /\ At(t, i) <= xx
    /\ xx < At(t, i + 1)

SearchEnded == mpc \in {"done", "raised"}

\* C1: for a non-empty time array the search reads no element outside
\* 0..len-1 (so it never raises) and, at the boundaries, returns the clamped
\* index: the last index for a target at or past the last sample, index 0
\* for a target before the first sample.
C1_ClampedBoundaryReturn ==
    PyLen(TheT) > 0 =>
        /\ mpc # "raised"
        /\ (mpc \in {"check", "jump"}) => (index >= 0 /\ index <= LastIndex(TheT))
        /\ (mpc = "done" /\ x >= At(TheT, LastIndex(TheT)))
               => marks = {<<"p", LastIndex(TheT)>>}
        /\ (mpc = "done" /\ x < At(TheT, 0)) => marks = {<<"p", 0>>}

\* C2: for a strictly increasing array and a target within its range
\* (t[0] <= x <= t[N-1]) the search ends without raising, and the index it
\* marks is the one whose bracket holds the target.
C2_FindsUniqueBracket ==
    (/\ PyLen(TheT) > 0
     /\ StrictlyIncreasing(TheT)
     /\ At(TheT, 0) <= x
     /\ x <= At(TheT, LastIndex(TheT)))
    => /\ mpc # "raised"
       /\ mpc = "done" => \E i \in 0..LastIndex(TheT) :
                              /\ marks = {<<"p", i>>}
                              /\ Brackets(TheT, i, x)

\* What the code does do for C2's inputs: with at least three samples and a
\* target strictly below the last one, it marks the bracketing index.
SearchFindsInteriorBracket ==
    (/\ PyLen(TheT) >= 3
     /\ StrictlyIncreasing(TheT)
     /\ At(TheT, 0) <= x
     /\ x < At(TheT, LastIndex(TheT)))
    => /\ mpc # "raised"
       /\ mpc = "done" => \E i \in 0..LastIndex(TheT) :
                              /\ marks = {<<"p", i>>}
                              /\ Brackets(TheT, i, x)

\* The read that raised was one step outside the array: the element after
\* the last one, or the element before the first one a container accepts.
RaisedAtBoundary ==
    \/ index + 1 = PyLen(TheT)
    \/ index = PyLen(TheT)
    \/ tkind = "Series" /\ index = -1
    \/ tkind = "list" /\ index = -PyLen(TheT) - 1

\* How the loop does end (SpecSearchFair): it always ends; once the distance
\* has been clamped to 1 the index never turns round; and when it ends by
\* raising, the read that raised was at a boundary of the array.
SearchLoopEnds ==
    /\ <>SearchEnded
    /\ [][(mpc = "jump" /\ clamped /\ dir # 0 /\ mpc' = "check") => dir' = dir]_vars
    /\ [](mpc = "raised" => RaisedAtBoundary)

\* C10: for every non-empty array, sorted or not, and every target the
\* search loop terminates, and it ends by finding a bracket or a boundary
\* index: mark_xdata returns with the pair marked at an index that brackets
\* the target or is the first or last index.
C10_EndsWithBracketOrBoundaryIndex ==
    (PyLen(TheT) > 0 /\ SearchEnded) =>
        /\ mpc = "done"
        /\ \E k \in 0..LastIndex(TheT) :
              /\ marks = {<<"p", k>>}
              /\ (Brackets(TheT, k, x) \/ k = 0 \/ k = LastIndex(TheT))

\* ------------------------------------------------------------- claim C3
TheY == plot_pair_data[column].y

\* The scan is armed at sample k: the last earlier sample that differs from
\* the threshold lies below it, or no earlier sample differs from it.
ArmedAt(ys, k, thr) ==
    LET prev == {j \in 0..(k - 1) : At(ys, j) # thr}
    IN  \/ prev = {}
        \/ At(ys, CHOOSE j \in prev : \A m \in prev : m <= j) < thr

\* Sample k is the first sample of a rising run.
RisingAt(ys, k, thr) == At(ys, k) > thr /\ ArmedAt(ys, k, thr)

\* C3: the scan calls mark_xdata for sample i exactly when it is armed and
\* y[i] > threshold, then disarms, and is armed again only by a later sample
\* with y < threshold; a sample equal to the threshold neither triggers nor
\* re-arms.  So at every point of the scan the calls made are, in order,
\* those for the first sample of each rising run seen so far, each with the
\* sample's own x.
C3_RisingEdgeScan ==
    scpc \in {"scan", "marking", "done"} =>
        LET seen == IF scpc = "marking" THEN scan_i ELSE scan_i - 1
            edges == {k \in 0..seen : RisingAt(TheY, k, rising_threshold)}
        IN  /\ is_low = ArmedAt(TheY, scan_i, rising_threshold)
            /\ scpc = "marking" => RisingAt(TheY, scan_i, rising_threshold)
            /\ Len(mark_calls) = Cardinality(edges)
            /\ \A n \in 1..Len(mark_calls) :
                  /\ mark_calls[n][1] \in edges
                  /\ mark_calls[n][2] = At(plot_pair_data[column].x, mark_calls[n][1])
                  /\ n > 1 => mark_calls[n - 1][1] < mark_calls[n][1]

\* y = [1, 0, 1, 0.5] with threshold 0.5: index 0 triggers (the scan starts
\* armed), index 1 re-arms, index 2 triggers, index 3 equals the threshold.
C3_Witness ==
    /\ scpc = "done"
    /\ TheY = <<2, 0, 2, 1>>
    /\ rising_threshold = 1
    /\ mark_calls = << <<0, 0>>, <<2, 4>> >>
    /\ ~is_low

\* ------------------------------------------------------------- claim C6
SepsUpTo(toks, n) == Cardinality({j \in 1..n : toks[j] = Slash})

\* The subplot a non-separator token belongs to and its place there.
GroupOf(toks, j) == SepsUpTo(toks, j) + 1

RankOf(toks, j) ==
    Cardinality({m \in 1..j : toks[m] # Slash /\ SepsUpTo(toks, m) = SepsUpTo(toks, j)})

HasComma(str) == \E k \in 1..Len(str) : str[k] = ","

\* e is the entry of token tok: split at the first comma, or timestamp.
IsEntryOf(e, tok) ==
    /\ DOMAIN e = {"x", "y"}
    /\ IF HasComma(tok)
       THEN ~HasComma(e.x) /\ e.x \o <<",">> \o e.y = tok
       ELSE e.x = Timestamp /\ e.y = tok

\* C6: create_subplots_from_arguments returns (number of '/' tokens + 1)
\* subplots; every other token is one entry of the subplot opened by the
\* last '/' before it, in token order, with x and y split at the first comma
\* or x = 'timestamp'; a leading '/' leaves the first subplot empty.
C6_SubplotsFromArguments ==
    apc = "returned" =>
        /\ Len(subplots) = SepsUpTo(arguments, Len(arguments)) + 1
        /\ \A g \in 1..Len(subplots) :
              Len(subplots[g]) =
                  Cardinality({j \in 1..Len(arguments) :
                                  arguments[j] # Slash /\ GroupOf(arguments, j) = g})
        /\ \A j \in 1..Len(arguments) :
              arguments[j] # Slash =>
                  IsEntryOf(subplots[GroupOf(arguments, j)][RankOf(arguments, j)],
                            arguments[j])
        /\ (arguments # <<>> /\ arguments[1] = Slash) => subplots[1] = <<>>
        /\ subplots = create_subplots_from_arguments(arguments)

\* ['a,b', '/', 'c', 'd'] -> [[{x:a, y:b}], [{x:timestamp, y:c}, {x:timestamp, y:d}]]
C6_Witness ==
    /\ apc = "returned"
    /\ arguments = << <<"a", ",", "b">>, Slash, C, D >>
    /\ subplots = << <<[x |-> A, y |-> B]>>,
                     <<[x |-> Timestamp, y |-> C], [x |-> Timestamp, y |-> D]>> >>

\* ------------------------------------------------------------- claim C4
\* The time array of a plotted entry: the time stamps of its table.
TimeArrayOf(entry) == LoadedTables[entry.yident[1]].stamps

\* C4: once the plots are built, a mark request for timestamp t (a click
\* handled by display_time_info, or a -m marker column) puts a marker on
\* every plotted entry, at the index of the entry's own time array whose
\* bracket holds t; and a -m marker column does not end main.
C4_MarksEveryEntry ==
    /\ (pc = "showing" /\ mpc = "done") =>
          \A k \in 1..Len(plot_info) :
              \E m \in marks : m[1] = k /\ Brackets(TimeArrayOf(plot_info[k]), m[2], x)
    /\ ~(pc = "raised" /\ error.type = "KeyError" /\ error.key = "plot_pair_data")

\* ------------------------------------------------------------- claim C5
\* C5: the entries of both builders have the shape {x, y, table?, options},
\* so main's loop over them never fails on a missing key.
C5_SameEntryShape ==
    /\ \A k \in 1..Len(plots) : \A j \in 1..Len(plots[k]) :
          /\ {"x", "y", "options"} \subseteq DOMAIN plots[k][j]
          /\ DOMAIN plots[k][j] \subseteq {"x", "y", "table", "options"}
    /\ ~(pc = "raised" /\ error.type = "KeyError" /\ error.key = "options")

\* ------------------------------------------------------------- claim C7
Unresolved(entry) == XIdent(entry) = NotFound \/ YIdent(entry) = NotFound

PlotsBuilt == pc \notin {"parse_args", "build_plots"}

\* No entry with a missing identifier is gathered, and an entry that cannot
\* be resolved keeps main from every gather call and from showing anything.
NoGatherUnresolved ==
    /\ \A k \in 1..Len(plot_info) :
          plot_info[k].xident # NotFound /\ plot_info[k].yident # NotFound
    /\ (PlotsBuilt /\ \E k \in 1..Len(FlatEntries(plots)) :
                         Unresolved(FlatEntries(plots)[k].entry))
          => /\ ds_calls = <<>>
             /\ pc \notin {"gather", "plot", "markers", "show", "showing"}

\* main was ended by the ValueError of lines 388-391
ResolveFailed == pc = "raised" /\ error.type = "ValueError"

FailedEntry == FlatEntries(plots)[rpos + 1].entry

\* C7 as stated: no entry reaches gather with a null xident or yident; a
\* failed lookup aborts main before any gather; the error names y when the y
\* column is not found, and x with the y it was resolved for when the x
\* column is not found.
C7_ErrorNamesFailedRole ==
    /\ NoGatherUnresolved
    /\ ResolveFailed =>
          /\ YIdent(FailedEntry) = NotFound
                => error.role = "y" /\ error.y = FailedEntry.y
          /\ XIdent(FailedEntry) = NotFound
                => error.role = "x" /\ error.x = FailedEntry.x /\ error.y = FailedEntry.y

\* C7 amended: as C7, but the x lookup is tested first: the error names x,
\* with the y it was resolved for, whenever the x column is not found, and
\* names y only when the x column was found and the y column was not.
C7_ErrorNamesFirstFailedRole ==
    /\ NoGatherUnresolved
    /\ ResolveFailed =>
          /\ Unresolved(FailedEntry)
          /\ XIdent(FailedEntry) = NotFound
                => error.role = "x" /\ error.x = FailedEntry.x /\ error.y = FailedEntry.y
          /\ (XIdent(FailedEntry) # NotFound /\ YIdent(FailedEntry) = NotFound)
                => error.role = "y" /\ error.y = FailedEntry.y

\* Both lookups failed for the default timestamp x of a missing y column,
\* after an earlier entry had been resolved.
C7_Witness ==
    /\ ResolveFailed
    /\ XIdent(FailedEntry) = NotFound
    /\ YIdent(FailedEntry) = NotFound
    /\ error.role = "x"
    /\ ds_calls = <<>>

\* ------------------------------------------------------------- claim C8
ListOnly ==
    /\ args.list_variables
    /\ args.log_files
    /\ args.plot_pairs = <<>>
    /\ ~args.yaml_plot.given

\* C8: -l with a log source and neither -p nor -y is accepted: it prints
\* every source with its columns and exits normally without building plots;
\* with -l the exit status is non-zero only when no source is given.
C8_ListVariablesAccepted ==
    /\ ListOnly =>
          /\ pc # "raised"
          /\ pc = "exited" => (exit_code = "0" /\ listed = Listing /\ plot_info = <<>>)
    /\ (args.list_variables /\ exit_code = "1")
          => (~args.log_files /\ ~args.network_server)

\* ------------------------------------------------------------- claim C9
\* C9: while the animation is shown, the paused flag equals 'the timer is
\* stopped': every call of pause toggles both, starting from a running
\* timer with paused = False.
C9_PausedMeansTimerStopped ==
    (pc = "showing" /\ args.animate) => (paused <=> timer = "stopped")

\* ------------------------------------------------------------ claim C11
Advance == "gather_next_datasets"

\* The calls made by one gather_new_data over n entries, each pass after
\* the first `lead' calls preceded by one advance.
CallAt(k, n, lead) == IF k > lead /\ (k - lead - 1) % (n + 1) = 0 THEN Advance ELSE "gather"

\* A frame of the animation: the source's calls grew while the window is
\* shown.
FrameStep == pc = "showing" /\ ds_calls' # ds_calls

\* What a frame does: one advance, then a gather of every entry at the
\* advanced cursor; every entry's line gets the gathered data and is
\* returned as touched.
FrameRegathersAll ==
    FrameStep =>
        /\ ds_calls' = (ds_calls \o <<Advance>>) \o [n \in 1..Len(plot_info) |-> "gather"]
        /\ Len(plot_info') = Len(plot_info)
        /\ \A n \in 1..Len(plot_info') :
              /\ plot_info'[n].data = gather(plot_info[n].xident, plot_info[n].yident,
                                             TRUE, cursor')
              /\ line_data'[plot_info'[n].plot] = Len(plot_info'[n].data.x)
        /\ plots_touched' = [n \in 1..Len(plot_info') |-> plot_info'[n].plot]

\* C11: in animate mode every gather of the plot entries, the first one
\* made by main included, comes after one advance of the source's cursor
\* since the previous gather; and every animation frame gathers every plot
\* entry again, sets the data of every entry's line and returns all of them
\* as touched.
C11_EveryGatherAfterAdvance ==
    /\ [](args.animate =>
             \A k \in 1..Len(ds_calls) : ds_calls[k] = CallAt(k, Len(plot_info), 0))
    /\ [][FrameRegathersAll]_vars

\* C11 amended: as C11, but main's gather, the first one, is made with no
\* advance before it; every later gather is a frame's and comes after
\* exactly one advance.
C11_FrameGatherAfterAdvance ==
    /\ [](args.animate =>
             \A k \in 1..Len(ds_calls) :
                ds_calls[k] = CallAt(k, Len(plot_info), Len(plot_info)))
    /\ [][FrameRegathersAll]_vars

\* Two frames of an animation of two entries from different tables have
\* run: each line holds the rows its table has up to the cursor, and both
\* were touched.
C11_Witness ==
    /\ pc = "showing"
    /\ args.animate
    /\ Len(plot_info) = 2
    /\ FramesDone = 2
    /\ ds_calls = <<"gather", "gather", Advance, "gather", "gather",
                    Advance, "gather", "gather">>
    /\ plots_touched = <<1, 2>>
    /\ line_data = <<3, 4>>

====
